---- MODULE Spec2Model ----
(***************************************************************************)
(* The genetic-algorithm engine of the N-Queens solver (src/main.py):      *)
(* build_population, crossover, mutation, evaluate_gen / fitness,          *)
(* eliminate, and the generation loop of start_algorithm.                  *)
(*                                                                         *)
(* A board is a Python list of n column numbers; here it is a sequence of  *)
(* length n, so Python's board[i] is board[i + 1].  Indices kept in state  *)
(* (chosen_ones, gen) are Python's 0-based values.                         *)
(*                                                                         *)
(* Lists of boards are modelled by value.  The only in-place write of the  *)
(* program is population_list[i][col] = val in mutation; no board object   *)
(* is ever held at two positions (build_population and the slices of       *)
(* crossover create fresh lists, crossover's copy() and eliminate's sort   *)
(* move references without duplicating them), and the list passed to       *)
(* crossover is dropped by the caller, so the write is visible exactly at  *)
(* position i of the one live list.                                        *)
(***************************************************************************)
EXTENDS Integers, Sequences, FiniteSets

VARIABLES
    n, pop_size, mut_rate,   \* the validated inputs; mut_rate in hundredths
    population, scores,      \* the lists of start_algorithm
    gen,                     \* the loop variable of start_algorithm
    crossover_arg,           \* the list passed to crossover, once it returned
    chosen_ones,             \* mutation's chosen_ones, as a set of indices
    answer, generation,      \* the arguments of draw_board
    pc,                      \* the statement start_algorithm is at
    first_zero               \* history: the first generation whose population
                             \* held a board without conflicts after mutation

vars == <<n, pop_size, mut_rate, population, scores, gen, crossover_arg,
          chosen_ones, answer, generation, pc, first_zero>>

(***************************************************************************)
(* Bounds of the model.                                                    *)
(***************************************************************************)
\* largest board size n drawn by Init
MaxN == 4
\* largest population size drawn by Init (besides the GUI default)
MaxPop == 3
\* largest n * pop_size of a drawn configuration
MaxGenes == 6
\* FairSpec: largest board size, and largest n * pop_size
MaxFairN == 3
MaxFairGenes == 4
\* pools up to this size are shuffled in every possible way
MaxShuffle == 4
\* SpecEliminate: longest list handed to eliminate
MaxLen == 3
\* SpecEliminate: largest score in a list handed to eliminate
MaxScore == 2

\* the population size the GUI proposes
DefaultPop == 50

\* mutation rates, in hundredths (the GUI accepts at most two decimals)
Rates == {0, 50, 100}
\* further rates, run with the default population size only
DefaultPopRates == {58}

(***************************************************************************)
(* Binary floating point.  mut_rate is a Python float (IEEE-754 double):   *)
(* float(mut_rate_str) is the double nearest to the decimal, and           *)
(* len(mutated_population) * mutation_rate is the double nearest to the    *)
(* exact product; int() then truncates.  Mantissas have 53 bits, more than *)
(* TLC's integers hold, so they are sequences of bits, most significant    *)
(* first.  A double is [mant |-> bits, exp |-> e], worth mant * 2^e.       *)
(***************************************************************************)
MantBits == 53
\* multi-word arithmetic: a word holds LimbBits bits
LimbBits == 16

\* F(v) with v worked out once, however often F uses it
With(v, F(_)) == CHOOSE r \in {F(x) : x \in {v}} : TRUE

Zeros(k) == [i \in 1..k |-> 0]

RECURSIVE BitsToInt(_)
BitsToInt(b) ==
    With(b, LAMBDA bits :
        IF bits = <<>> THEN 0
        ELSE 2 * BitsToInt(SubSeq(bits, 1, Len(bits) - 1)) + bits[Len(bits)])

\* bits without its leading zeros
Normalized(b) ==
    With(b, LAMBDA bits :
        IF \A i \in 1..Len(bits) : bits[i] = 0 THEN <<>>
        ELSE SubSeq(bits,
                    CHOOSE i \in 1..Len(bits) :
                        bits[i] = 1 /\ \A j \in 1..(i - 1) : bits[j] = 0,
                    Len(bits)))

\* bits + 1; one bit longer when every bit was 1
Increment(b) ==
    With(b, LAMBDA bits :
        IF \A i \in 1..Len(bits) : bits[i] = 1 THEN <<1>> \o Zeros(Len(bits))
        ELSE With(CHOOSE i \in 1..Len(bits) :
                      bits[i] = 0 /\ \A j \in (i + 1)..Len(bits) : bits[j] = 1,
                  LAMBDA last :
                      SubSeq(bits, 1, last - 1) \o <<1>> \o Zeros(Len(bits) - last)))

\* whether some bit of bits[from..] is 1
AnyBit(bits, from) == \E i \in from..Len(bits) : bits[i] = 1

\* bits (no leading zero) times 2^e, rounded to MantBits bits, ties to even
RoundToDouble(b, e) ==
    With(b, LAMBDA bits :
        IF Len(bits) <= MantBits THEN [mant |-> bits, exp |-> e]
        ELSE [mant |-> IF bits[MantBits + 1] = 1
                          /\ (AnyBit(bits, MantBits + 2) \/ bits[MantBits] = 1)
                       THEN Increment(SubSeq(bits, 1, MantBits))
                       ELSE SubSeq(bits, 1, MantBits),
              exp  |-> e + Len(bits) - MantBits])

\* 2^e modulo den
RECURSIVE Pow2Mod(_, _)
Pow2Mod(ex, den) ==
    With(ex, LAMBDA e :
        IF e = 0 THEN 1 % den
        ELSE With(Pow2Mod(e \div 2, den),
                  LAMBDA h : (h * h * (IF e % 2 = 1 THEN 2 ELSE 1)) % den))

\* what is left of num / den after i bits of its binary expansion
FracRem(num, den, i) == (num * Pow2Mod(i, den)) % den

\* bit i (from 1) of the binary expansion of num / den, 0 < num < den
FracBit(num, den, i) == IF 2 * FracRem(num, den, i - 1) >= den THEN 1 ELSE 0

\* float("0.rr"): the double nearest to r / 100
ParseRate(r) ==
    IF r = 0 THEN [mant |-> <<>>, exp |-> 0]
    ELSE IF r >= 100 THEN [mant |-> <<1>>, exp |-> 0]
    ELSE With(CHOOSE i \in 1..100 :
                  /\ FracBit(r, 100, i) = 1
                  /\ \A j \in 1..(i - 1) : FracBit(r, 100, j) = 0,
              LAMBDA first :
                  \* MantBits bits, a guard bit, and a sticky bit for the rest
                  RoundToDouble(
                      [i \in 1..(MantBits + 1) |-> FracBit(r, 100, first + i - 1)]
                      \o <<IF FracRem(r, 100, first + MantBits) # 0 THEN 1 ELSE 0>>,
                      -(first + MantBits + 1)))

\* word j (1 is the least significant) of bits
Limb(bits, j) ==
    BitsToInt(SubSeq(bits,
                     IF Len(bits) - LimbBits * j < 0 THEN 1
                     ELSE Len(bits) - LimbBits * j + 1,
                     Len(bits) - LimbBits * (j - 1)))

\* the words of (words j.. of bits) * k + carry, least significant first
RECURSIVE MulLimbs(_, _, _, _)
MulLimbs(bits, j, k, carry) ==
    IF LimbBits * (j - 1) >= Len(bits)
    THEN IF carry = 0 THEN <<>> ELSE <<carry>>
    ELSE With(Limb(bits, j) * k + carry,
              LAMBDA t : <<t % (2 ^ LimbBits)>>
                         \o MulLimbs(bits, j + 1, k, t \div (2 ^ LimbBits)))

\* the bits of words, most significant first
LimbsToBits(w) ==
    With(w, LAMBDA words :
        [i \in 1..(LimbBits * Len(words)) |->
            (words[Len(words) - ((i - 1) \div LimbBits)]
                \div (2 ^ (LimbBits - 1 - ((i - 1) % LimbBits)))) % 2] \o <<>>)

\* k * x in double arithmetic, for an integer 0 <= k < 2^15 (exactly a double)
FloatMul(k, x) ==
    With(x, LAMBDA d :
        IF k = 0 \/ d.mant = <<>> THEN [mant |-> <<>>, exp |-> 0]
        ELSE RoundToDouble(Normalized(LimbsToBits(MulLimbs(d.mant, 1, k, 0))), d.exp))

\* int(x) for a double x >= 0: truncation
FloatToInt(x) ==
    With(x, LAMBDA d :
        IF d.exp >= 0 THEN BitsToInt(d.mant \o Zeros(d.exp))
        ELSE IF Len(d.mant) + d.exp <= 0 THEN 0
        ELSE BitsToInt(SubSeq(d.mant, 1, Len(d.mant) + d.exp)))

(***************************************************************************)
(* The engine.                                                             *)
(***************************************************************************)
Abs(x) == IF x < 0 THEN -x ELSE x

\* the lists build_population's inner comprehension can produce
Boards(k) == [1..k -> 0..(k - 1)]

\* the lists of boards build_population(population_size, k) can return
build_population(population_size, k) == [1..population_size -> Boards(k)]

\* Python's b[lo:hi] for 0 <= lo <= hi <= len(b)
Slice(b, lo, hi) == SubSeq(b, lo + 1, hi)

\* the for loop of crossover from index i on
RECURSIVE crossover_loop(_, _, _, _)
crossover_loop(population_list, div_index, i, new_population) ==
    IF i >= Len(population_list) - 1 THEN new_population
    ELSE LET a      == population_list[i + 1]
             b      == population_list[i + 2]
             child1 == Slice(a, 0, div_index) \o Slice(b, div_index, Len(b))
             child2 == Slice(b, 0, div_index) \o Slice(a, div_index, Len(a))
         IN  crossover_loop(population_list, div_index, i + 2,
                            new_population \o <<child1, child2>>)

\* crossover without the copy: the children are appended to the list passed in
crossover_in_place(population_list, k) ==
    LET extended == crossover_loop(population_list, k \div 2, 0, population_list)
    IN  [population_list |-> extended, new_population |-> extended]

\* new_population starts as a copy, so the list passed in stays as it was;
\* population_list is that list after the call, new_population the result
crossover(population_list, k) ==
    [population_list |-> population_list,
     new_population  |-> crossover_loop(population_list, k \div 2, 0, population_list)]

\* list(range(len // 2, len)): the indices mutation may choose from
Pool(len) == (len \div 2)..(len - 1)

\* mut_rate = float(mut_rate_str): the text is converted once per run, and
\* every mutation multiplies by the same double
ParsedRates == [r \in Rates \cup DefaultPopRates |-> ParseRate(r)]

\* int(len(mutated_population) * mutation_rate), rate in hundredths
ChosenCount(poolsize, rate) == FloatToInt(FloatMul(poolsize, ParsedRates[rate]))

\* the sets of indices the first cnt entries of the shuffled pool can hold:
\* every subset of that size for a pool of at most MaxShuffle indices, and
\* for a larger pool the runs of cnt consecutive indices (cyclically)
ChosenSets(pool, cnt) ==
    IF Cardinality(pool) <= MaxShuffle
    THEN {S \in SUBSET pool : Cardinality(S) = cnt}
    ELSE LET size == Cardinality(pool)
             lo   == CHOOSE i \in pool : \A j \in pool : i <= j
         IN  {{lo + ((s + t) % size) : t \in 0..(cnt - 1)} : s \in 0..(size - 1)}

\* val drawn by randint(0, k)
Cells_val_to_k(k) == (0..(k - 1)) \X (0..k)

\* the (col, val) pairs the two randint(0, k - 1) of mutation can draw
Cells(k) == (0..(k - 1)) \X (0..(k - 1))

\* the write going to the board before the chosen one
mutated_off_by_one(population_list, chosen, w) ==
    [i \in 1..Len(population_list) |->
        IF i \in chosen
        THEN [population_list[i] EXCEPT ![w[i][1] + 1] = w[i][2]]
        ELSE population_list[i]]

\* the population after population_list[i][col] = val for every chosen i,
\* w[i] being the (col, val) drawn for i
mutated(population_list, chosen, w) ==
    [i \in 1..Len(population_list) |->
        IF (i - 1) \in chosen
        THEN [population_list[i] EXCEPT ![w[i - 1][1] + 1] = w[i - 1][2]]
        ELSE population_list[i]]

\* the inner loop without the test of the diagonals
RECURSIVE evaluate_inner_columns(_, _, _, _)
evaluate_inner_columns(board, i, j, conflict) ==
    IF j >= Len(board) THEN conflict
    ELSE evaluate_inner_columns(board, i, j + 1,
            IF board[i + 1] = board[j + 1] THEN conflict + 1 ELSE conflict)

\* the inner loop of evaluate_gen from j on
RECURSIVE evaluate_inner(_, _, _, _)
evaluate_inner(board, i, j, conflict) ==
    IF j >= Len(board) THEN conflict
    ELSE evaluate_inner(board, i, j + 1,
            IF board[i + 1] = board[j + 1]
               \/ Abs(i - j) = Abs(board[i + 1] - board[j + 1])
            THEN conflict + 1 ELSE conflict)

\* the outer loop of evaluate_gen from i on
RECURSIVE evaluate_outer(_, _, _)
evaluate_outer(board, i, conflict) ==
    IF i >= Len(board) THEN conflict
    ELSE evaluate_outer(board, i + 1, evaluate_inner(board, i, i + 1, conflict))

evaluate_gen(board) == evaluate_outer(board, 0, 0)

fitness(population_list) ==
    [i \in 1..Len(population_list) |-> evaluate_gen(population_list[i])]

\* the rank under sorted(..., reverse=True): highest score first
SortRank_descending(evaluate_list, i) ==
    Cardinality({j \in 1..Len(evaluate_list) :
                    \/ evaluate_list[j] > evaluate_list[i]
                    \/ (evaluate_list[j] = evaluate_list[i] /\ j <= i)})

\* sorted(zip(evaluate_list, population_list), key=lambda x: x[0]): the
\* (score, board) pairs by ascending score, equal scores in their input order
\* (Python's sort is stable).  The pair at input position i goes to SortRank.
SortRank(evaluate_list, i) ==
    Cardinality({j \in 1..Len(evaluate_list) :
                    \/ evaluate_list[j] < evaluate_list[i]
                    \/ (evaluate_list[j] = evaluate_list[i] /\ j <= i)})

\* the pairs as zipped, not sorted
combined_unsorted(population_list, evaluate_list) ==
    [r \in 1..Len(evaluate_list) |-> <<evaluate_list[r], population_list[r]>>]

combined(population_list, evaluate_list) ==
    [r \in 1..Len(evaluate_list) |->
        LET i == CHOOSE j \in 1..Len(evaluate_list) :
                     SortRank(evaluate_list, j) = r
        IN  <<evaluate_list[i], population_list[i]>>]

\* Python's s[:k] for k >= 0
Prefix(s, k) == SubSeq(s, 1, IF k < Len(s) THEN k ELSE Len(s))

\* eliminate without the early return
eliminate_no_early_return(population_list, evaluate_list, population_size) ==
    LET top == Prefix(combined(population_list, evaluate_list), population_size)
    IN  <<  [i \in 1..Len(top) |-> top[i][2]],
            [i \in 1..Len(top) |-> top[i][1]]  >>

\* eliminate returns the pair <<boards, scores>>
eliminate(population_list, evaluate_list, population_size) ==
    LET c   == combined(population_list, evaluate_list)
        top == Prefix(c, population_size)
    IN  IF c[1][1] = 0
        THEN <<  <<c[1][2]>>, <<0>>  >>
        ELSE <<  [i \in 1..Len(top) |-> top[i][2]],
                 [i \in 1..Len(top) |-> top[i][1]]  >>

\* one generation more
generations_plus_one == n * 2 + 1

\* generations = n * 2
generations == n * 2

\* an optional number: None, or Some(g) with g = Some(g)[1]
None == <<>>
Some(g) == <<g>>

\* the loop index itself
found_generation_index(g) == g

\* the generation draw_board is told when a solution is found in pass g
found_generation(g) == g + 1

\* whether a board of the list has no conflict
HasSolution(population_list) ==
    \E i \in 1..Len(population_list) : evaluate_gen(population_list[i]) = 0

(***************************************************************************)
(* The generation loop of start_algorithm, from build_population on.  The  *)
(* engine is run for every n >= 1 and pop_size >= 1; of these the input    *)
(* form lets through n in 4..10 and pop_size in 1..500.                    *)
(***************************************************************************)
\* the inputs (n, pop_size, mut_rate) of the runs explored
Configs ==
    {c \in (1..MaxN) \X (1..MaxPop) \X Rates : c[1] * c[2] <= MaxGenes}
    \cup ({1} \X {DefaultPop} \X DefaultPopRates)

\* the state after population = build_population(pop_size, n)
Start(configs) ==
    /\ \E c \in configs :
          /\ n = c[1]
          /\ pop_size = c[2]
          /\ mut_rate = c[3]
    /\ population \in build_population(pop_size, n)
    /\ scores = <<>>
    /\ gen = 0
    /\ crossover_arg = <<>>
    /\ chosen_ones = {}
    /\ answer = <<>>
    /\ generation = None
    /\ pc = "crossover"
    /\ first_zero = None

Init == Start(Configs)

\* population = crossover(population, n)
Crossover ==
    /\ pc = "crossover"
    /\ LET r == crossover(population, n)
       IN  /\ crossover_arg' = r.population_list
           /\ population' = r.new_population
    /\ pc' = "mutation"
    /\ UNCHANGED <<n, pop_size, mut_rate, scores, gen, chosen_ones, answer,
                   generation, first_zero>>

\* population = mutation(population, mut_rate, n)
Mutation ==
    /\ pc = "mutation"
    /\ LET pool == Pool(Len(population))
           cnt  == ChosenCount(Cardinality(pool), mut_rate)
       IN  \E chosen \in ChosenSets(pool, cnt) :
             \E w \in [chosen -> Cells(n)] :
                /\ chosen_ones' = chosen
                /\ population' = mutated(population, chosen, w)
    /\ crossover_arg' = <<>>
    /\ first_zero' = IF first_zero = None /\ HasSolution(population')
                     THEN Some(gen) ELSE first_zero
    /\ pc' = "fitness"
    /\ UNCHANGED <<n, pop_size, mut_rate, scores, gen, answer, generation>>

\* scores = fitness(population)
Fitness ==
    /\ pc = "fitness"
    /\ scores' = fitness(population)
    /\ chosen_ones' = {}
    /\ pc' = "eliminate"
    /\ UNCHANGED <<n, pop_size, mut_rate, population, gen, crossover_arg, answer,
                   generation, first_zero>>

\* population, scores = eliminate(population, scores, pop_size)
Eliminate ==
    /\ pc = "eliminate"
    /\ LET r == eliminate(population, scores, pop_size)
       IN  /\ population' = r[1]
           /\ scores' = r[2]
    /\ pc' = "check"
    /\ UNCHANGED <<n, pop_size, mut_rate, gen, crossover_arg, chosen_ones, answer,
                   generation, first_zero>>

\* if 0 in scores: draw_board(population[0], gen + 1); return
Solved ==
    /\ pc = "check"
    /\ \E i \in 1..Len(scores) : scores[i] = 0
    /\ answer' = population[1]
    /\ generation' = Some(found_generation(gen))
    /\ pc' = "SOLVED"
    /\ UNCHANGED <<n, pop_size, mut_rate, population, scores, gen, crossover_arg,
                   chosen_ones, first_zero>>

\* the for loop takes its next value
NextGeneration ==
    /\ pc = "check"
    /\ \A i \in 1..Len(scores) : scores[i] # 0
    /\ gen + 1 < generations
    /\ gen' = gen + 1
    /\ pc' = "crossover"
    /\ UNCHANGED <<n, pop_size, mut_rate, population, scores, crossover_arg,
                   chosen_ones, answer, generation, first_zero>>

\* the for loop is over: draw_board(population[0], None)
Exhausted ==
    /\ pc = "check"
    /\ \A i \in 1..Len(scores) : scores[i] # 0
    /\ gen + 1 >= generations
    /\ answer' = population[1]
    /\ generation' = None
    /\ pc' = "EXHAUSTED"
    /\ UNCHANGED <<n, pop_size, mut_rate, population, scores, gen, crossover_arg,
                   chosen_ones, first_zero>>

Next ==
    \/ Crossover
    \/ Mutation
    \/ Fitness
    \/ Eliminate
    \/ Solved
    \/ NextGeneration
    \/ Exhausted

Spec == Init /\ [][Next]_vars

\* The same runs from fewer inputs, with the fairness of sequential code: a
\* statement that can be executed is executed.
FairConfigs ==
    {c \in (1..MaxFairN) \X (1..MaxPop) \X Rates : c[1] * c[2] <= MaxFairGenes}

FairInit == Start(FairConfigs)

FairSpec == FairInit /\ [][Next]_vars /\ WF_vars(Next)

(***************************************************************************)
(* eliminate on its own, applied to any non-empty list of boards (of two    *)
(* rows: eliminate does not look into them) with any parallel list of      *)
(* scores and any target size.                                             *)
(***************************************************************************)
InitEliminate ==
    /\ n = 2
    /\ pop_size \in 1..(MaxLen + 1)
    /\ mut_rate = 0
    /\ \E len \in 1..MaxLen :
          /\ population \in [1..len -> Boards(n)]
          /\ scores \in [1..len -> 0..MaxScore]
    /\ gen = 0
    /\ crossover_arg = <<>>
    /\ chosen_ones = {}
    /\ answer = <<>>
    /\ generation = None
    /\ pc = "eliminate"
    /\ first_zero = None

NextEliminate == Eliminate

SpecEliminate == InitEliminate /\ [][NextEliminate]_vars

(***************************************************************************)
(* Vocabulary of the properties.                                           *)
(***************************************************************************)
Terminated == pc \in {"SOLVED", "EXHAUSTED"}

\* how many generations have been run through selection
Executed == IF pc \in {"check", "SOLVED", "EXHAUSTED"} THEN gen + 1 ELSE gen

MinOf(s) == CHOOSE m \in {s[i] : i \in 1..Len(s)} : \A i \in 1..Len(s) : m <= s[i]

MinInt(a, b) == IF a <= b THEN a ELSE b

\* the pairs of rows i < j whose queens attack each other
AttackingPairs(board) ==
    {p \in (0..(Len(board) - 1)) \X (0..(Len(board) - 1)) :
        /\ p[1] < p[2]
        /\ \/ board[p[1] + 1] = board[p[2] + 1]
           \/ p[2] - p[1] = Abs(board[p[1] + 1] - board[p[2] + 1])}

\* the rows in which two boards differ
DifferingRows(a, b) == {r \in 1..Len(a) : a[r] # b[r]}

\* the indices of the second half of a list of length len
SecondHalf(len) == {i \in 0..(len - 1) : i >= len \div 2}

C2_Terminates ==
    /\ <>[]Terminated
    /\ [](Executed <= 2 * n)
    /\ [][Executed' >= Executed]_vars
    /\ [][~Terminated]_vars

\* a run that used its whole budget of 2N generations
C2_Witness ==
    /\ Terminated
    /\ n >= 3
    /\ Executed = 2 * n

(***************************************************************************)
(* C3.  In EXHAUSTED all 2N generations were run, the emitted board is the *)
(* first of the final population, its score is the minimum over that       *)
(* population and is greater than 0, and it is emitted with None.          *)
(***************************************************************************)
C3_ExhaustedEmitsBest ==
    pc = "EXHAUSTED" =>
        /\ Executed = 2 * n
        /\ answer = population[1]
        /\ evaluate_gen(answer) = MinOf(fitness(population))
        /\ evaluate_gen(answer) > 0
        /\ generation = None

\* an exhausted run whose final population holds a board worse than the answer
C3_Witness ==
    /\ pc = "EXHAUSTED"
    /\ \E i \in 1..Len(population) : evaluate_gen(population[i]) > evaluate_gen(answer)

(***************************************************************************)
(* C4.  eliminate, given a non-empty list of boards, its parallel scores   *)
(* and a target size P >= 1: when some score is 0 it returns one board     *)
(* (one whose score is 0) with scores [0]; otherwise it returns            *)
(* min(P, length) boards, never more than P, scores ascending, each        *)
(* returned (board, score) being a distinct input pair, and no discarded   *)
(* pair with a score below a returned one.                                 *)
(***************************************************************************)
EliminatePost ==
    LET len == Len(population)
    IN  IF \E i \in 1..len : scores[i] = 0
        THEN /\ Len(population') = 1
             /\ scores' = <<0>>
             /\ \E i \in 1..len : scores[i] = 0 /\ population[i] = population'[1]
        ELSE /\ Len(population') = MinInt(pop_size, len)
             /\ Len(population') <= pop_size
             /\ Len(scores') = Len(population')
             /\ \A k \in 1..(Len(scores') - 1) : scores'[k] <= scores'[k + 1]
             /\ \E f \in [1..Len(scores') -> 1..len] :
                   /\ \A k, l \in 1..Len(scores') : k # l => f[k] # f[l]
                   /\ \A k \in 1..Len(scores') :
                         /\ population'[k] = population[f[k]]
                         /\ scores'[k] = scores[f[k]]
                   /\ \A j \in 1..len :
                         (\A k \in 1..Len(scores') : f[k] # j)
                            => \A k \in 1..Len(scores') : scores[j] >= scores'[k]

C4_EliminateContract == [][pc = "eliminate" => EliminatePost]_vars

\* eliminate has returned a whole list shorter than the target, reordered
C4_Witness ==
    /\ pc = "check"
    /\ Len(population) >= 2
    /\ pop_size > Len(population)
    /\ scores[1] > 0
    /\ scores[1] < scores[Len(scores)]

(***************************************************************************)
(* C5.  crossover on M boards of length N returns M + 2 * floor(M / 2)     *)
(* boards (2M for even M, 2M - 1 for odd M, M for M < 2): the M input      *)
(* boards unchanged and in order, then for each k < floor(M / 2) child A   *)
(* (rows below N // 2 of board 2k, the others of board 2k + 1) and child B *)
(* (the converse); the list passed in is not changed.                      *)
(***************************************************************************)
CrossoverPost ==
    LET M == Len(population)
        h == n \div 2
    IN  /\ Len(population') = M + 2 * (M \div 2)
        /\ M % 2 = 0 => Len(population') = 2 * M
        /\ M % 2 = 1 => Len(population') = 2 * M - 1
        /\ M < 2 => Len(population') = M
        /\ \A i \in 1..M : population'[i] = population[i]
        /\ \A k \in 0..((M \div 2) - 1) :
              /\ population'[M + 2 * k + 1] =
                    [r \in 1..n |-> IF r <= h THEN population[2 * k + 1][r]
                                              ELSE population[2 * k + 2][r]]
              /\ population'[M + 2 * k + 2] =
                    [r \in 1..n |-> IF r <= h THEN population[2 * k + 2][r]
                                              ELSE population[2 * k + 1][r]]
        /\ crossover_arg' = population

C6_ConflictScore ==
    pc = "eliminate" =>
        /\ Len(scores) = Len(population)
        /\ \A i \in 1..Len(population) :
              LET board == population[i]
                  score == scores[i]
              IN  /\ score = Cardinality(AttackingPairs(board))
                  /\ score \in 0..((n * (n - 1)) \div 2)
                  /\ score = 0 <=> AttackingPairs(board) = {}
                  /\ (\A r \in 1..n : board[r] = board[1])
                        => score = (n * (n - 1)) \div 2
                  /\ board = <<1, 3, 0, 2>> => score = 0
                  /\ board = <<0, 0, 0, 0>> => score = 6

\* fitness has scored the solution [1,3,0,2]
C6_Witness ==
    /\ pc = "eliminate"
    /\ n = 4
    /\ \E i \in 1..Len(population) : population[i] = <<1, 3, 0, 2>> /\ scores[i] = 0

(***************************************************************************)
(* C7.  Mutation of a list of length L at rate R overwrites one cell in    *)
(* each of exactly floor(R * |pool|) distinct boards, all from the pool of *)
(* indices in the second half of the list; with R = 0 the population is    *)
(* the same afterwards, with R = 1 every index of the pool is chosen.      *)
(***************************************************************************)
MutationPost ==
    LET len  == Len(population)
        pool == SecondHalf(len)
    IN  /\ chosen_ones' \subseteq pool
        /\ Cardinality(chosen_ones') = (mut_rate * Cardinality(pool)) \div 100
        /\ Len(population') = len
        /\ \A i \in 1..len :
              IF (i - 1) \in chosen_ones'
              THEN Cardinality(DifferingRows(population[i], population'[i])) <= 1
              ELSE population'[i] = population[i]
        /\ mut_rate = 0 => population' = population
        /\ mut_rate = 100 => chosen_ones' = pool

C7_MutatesFloorOfPool == [][pc = "mutation" => MutationPost]_vars

(***************************************************************************)
(* C8.  Mutation changes nothing outside its pool: the list keeps its      *)
(* length L and order, every board at an index below floor(L / 2) keeps    *)
(* its values, and every board at an index >= floor(L / 2) differs from    *)
(* its previous value in at most one cell.                                 *)
(***************************************************************************)
MutationFrame ==
    LET len == Len(population)
    IN  /\ Len(population') = len
        /\ \A i \in 1..len :
              IF i - 1 < len \div 2
              THEN population'[i] = population[i]
              ELSE /\ Len(population'[i]) = Len(population[i])
                   /\ Cardinality(DifferingRows(population[i], population'[i])) <= 1

C8_MutationFrame == [][pc = "mutation" => MutationFrame]_vars

\* both children of a pair were chosen and the list is no longer what
\* crossover made of its first half
C8_Witness ==
    /\ pc = "fitness"
    /\ n >= 3
    /\ pop_size = 2
    /\ chosen_ones = {2, 3}
    /\ population # crossover(SubSeq(population, 1, 2), n).new_population

(***************************************************************************)
(* C9.  In every state of a run every board of the population has length   *)
(* N and every value in 0..N-1.                                            *)
(***************************************************************************)
C9_BoardsWellFormed ==
    \A i \in 1..Len(population) :
        /\ Len(population[i]) = n
        /\ \A r \in 1..n : population[i][r] \in 0..(n - 1)

\* a later generation, just after mutation wrote into boards
C9_Witness ==
    /\ pc = "fitness"
    /\ gen >= 1
    /\ n >= 3
    /\ chosen_ones # {}

(***************************************************************************)
(* C10.  Elitism: the lowest score after selection never rises from one    *)
(* generation to the next (the evaluated population of a generation holds  *)
(* a score no higher than the best one the previous selection retained,    *)
(* and selection puts its lowest score first), and the emitted board has   *)
(* that first score.                                                       *)
(***************************************************************************)
BestNeverWorse ==
    /\ (pc = "fitness" /\ gen > 0) => MinOf(scores') <= scores[1]
    /\ pc = "eliminate" => scores'[1] = MinOf(scores)
    /\ (pc = "check" /\ Terminated') => evaluate_gen(answer') = scores[1]

\* as claimed, for every P >= 1 and R in [0,1]; read on the board sizes the
\* input form accepts (N >= 4), which the claim's N >= 1 includes
C10_ElitismAlways == [][n >= 4 => BestNeverWorse]_vars

\* as amended: for P >= 2, or P = 1 with R < 1
C10_ElitismFromTwo == [][(pop_size >= 2 \/ mut_rate < 100) => BestNeverWorse]_vars

\* a later generation whose mutated population beats the retained best
C10_Witness ==
    /\ pc = "fitness"
    /\ gen > 0
    /\ pop_size >= 2
    /\ chosen_ones # {}
    /\ MinOf(fitness(population)) < scores[1]

====
